---- MODULE Spec2Model ----
(***************************************************************************)
(* Model of Chapter11/04_xgboost_lightgbm_catboost_tuning.ipynb: the       *)
(* parameter grid generator (itertools.product + random.shuffle), the      *)
(* cross-validation runner run_cv and the search loop that records every   *)
(* setting's scores in the results table and checkpoints it to the store.  *)
(*                                                                         *)
(* Quantities are integers: AUC values in units of 1/240, learning rates   *)
(* and column fractions in units of 1/100.                                 *)
(***************************************************************************)
EXTENDS Integers, Sequences, FiniteSets, Bags, TLC

VARIABLES
    \* notebook settings (cell "CV Settings") and collaborators
    GBM,            \* backend name
    n_splits,       \* number of folds
    param_grid,     \* ordered mapping: sequence of [key, values]
    baseline,       \* what get_params(GBM) returns (gbm_params.py)
    \* random generators
    np_state,       \* numpy's global generator state
    py_state,       \* the random module's global generator state
    \* persistent store: the table held under result_key
    store,
    \* search loop
    pc,
    error,
    all_params,
    n_models,
    n,
    cv_params,
    fold,
    result,
    results,
    leaderboard,
    clock,
    iteration,
    \* a re-run of the grid cells
    run,
    prev_params,
    \* one fold's training inside run_cv
    tpc,
    round,
    best_iter,
    best_score,
    last_score,
    max_valid,
    fold_result

vars == <<GBM, n_splits, param_grid, baseline, np_state, py_state, store,
          pc, error, all_params, n_models, n, cv_params, fold,
          result, results, leaderboard, clock, iteration, run, prev_params,
          tpc, round, best_iter, best_score, last_score, max_valid,
          fold_result>>

loopVars == <<store, pc, error, all_params, n_models, n,
              cv_params, fold, result, results, leaderboard, clock,
              iteration>>

trainVars == <<tpc, round, best_iter, best_score, last_score, max_valid,
               fold_result>>

(***************************************************************************)
(* Bounds of the model.                                                    *)
(***************************************************************************)
\* n_splits ranges over 1..MaxSplits
MaxSplits == 2
\* generator states (entropy the interpreter starts from) range over 0..MaxSeed
MaxSeed == 2

(***************************************************************************)
(* Program constants.                                                      *)
(***************************************************************************)
NpSeed == 42
NumBoostRound == 250
EarlyStoppingRounds == 25
TopK == 5
CatBoostDefaultIterations == 1000

NaN == 0 - 1

Backends == {"xgboost", "lightgbm", "catboost"}

(***************************************************************************)
(* Generic helpers.                                                        *)
(***************************************************************************)
Min(a, b) == IF a <= b THEN a ELSE b

Range(s) == {s[i] : i \in DOMAIN s}

RECURSIVE SumSeq(_)
SumSeq(s) == IF s = <<>> THEN 0 ELSE Head(s) + SumSeq(Tail(s))

RECURSIVE SeqToBag(_)
SeqToBag(s) ==
    IF s = <<>> THEN EmptyBag ELSE SetToBag({Head(s)}) (+) SeqToBag(Tail(s))

RECURSIVE Pow2(_)
Pow2(d) == IF d = 0 THEN 1 ELSE 2 * Pow2(d - 1)

(***************************************************************************)
(* Inputs the model draws from.                                            *)
(***************************************************************************)
\* param_grid candidates per backend, as the notebook's comments group the
\* swept parameters: ordered mappings parameter name -> candidate list
ParamGrids(model) ==
    CASE model = "xgboost"  ->
            { << [key |-> "learning_rate",    values |-> <<1, 10, 30>>],
                 [key |-> "colsample_bytree", values |-> <<80, 100>>] >> }
      [] model = "lightgbm" ->
            { << [key |-> "num_leaves",       values |-> <<512, 1000, 8192>>] >>,
              << [key |-> "max_depth",        values |-> <<3, 13>>],
                 [key |-> "num_leaves",       values |-> <<512, 8192>>] >>,
              << [key |-> "learning_rate",    values |-> <<1, 10>>] >> }
      [] model = "catboost" ->
            { << [key |-> "learning_rate",    values |-> <<1, 10, 30>>] >> }

\* get_params(model): the backend's baseline configuration
get_params(model) ==
    CASE model = "xgboost"  -> { [learning_rate |-> 10, max_depth |-> 6,
                                  colsample_bytree |-> 100] }
      [] model = "lightgbm" -> { [learning_rate |-> 10, max_depth |-> 6,
                                  num_leaves |-> 31],
                                 [learning_rate |-> 10, bagging_freq |-> 5] }
      [] model = "catboost" -> { [learning_rate |-> 10, max_depth |-> 6,
                                  iterations |-> 300] }

\* what one fold's training can report: rounds, train AUC, valid AUC
FoldOutcomes ==
    { [rounds |-> 60,  train |-> 240, valid |-> 120],
      [rounds |-> 240, train |-> 180, valid |-> 240] }

\* a table left under result_key by an earlier run (index 1..7)
StaleRow == [valid |-> 0]

StaleTable ==
    [index |-> <<1, 2, 3, 4, 5, 6, 7>>,
     columns |-> {"valid"},
     data |-> [i \in 1..7 |-> StaleRow]]

EmptyTable == [index |-> <<>>, columns |-> {}, data |-> <<>>]

EmptyFrame == [columns |-> <<>>, index |-> {}, data |-> <<>>]

(***************************************************************************)
(* Parameter Grid Generator: itertools.product, then random.shuffle.        *)
(***************************************************************************)
Keys(grid) == [i \in DOMAIN grid |-> grid[i].key]

Values(grid) == [i \in DOMAIN grid |-> grid[i].values]

\* a product that forgets the last candidate of the last pool
RECURSIVE ProductDropLast(_)
ProductDropLast(pools) ==
    IF pools = <<>> THEN << <<>> >>
    ELSE LET k    == Len(pools)
             prev == ProductDropLast(SubSeq(pools, 1, k - 1))
             pool == SubSeq(pools[k], 1, Len(pools[k]) - 1)
         IN  [i \in 1..(Len(prev) * Len(pool)) |->
                 Append(prev[((i - 1) \div Len(pool)) + 1],
                        pool[((i - 1) % Len(pool)) + 1])]

\* itertools.product: result = [x + [y] for x in result for y in pool]
RECURSIVE product(_)
product(pools) ==
    IF pools = <<>> THEN << <<>> >>
    ELSE LET k    == Len(pools)
             prev == product(SubSeq(pools, 1, k - 1))
             pool == pools[k]
         IN  [i \in 1..(Len(prev) * Len(pool)) |->
                 Append(prev[((i - 1) \div Len(pool)) + 1],
                        pool[((i - 1) % Len(pool)) + 1])]

\* a swap that loses x[i]: x[i] = x[j] without the write back
SwapLossy(x, i, j) == [x EXCEPT ![i] = x[j]]

\* x[i], x[j] = x[j], x[i]
Swap(x, i, j) == [x EXCEPT ![i] = x[j], ![j] = x[i]]

\* random.shuffle: for i in reversed(range(1, len(x))): j = randbelow(i + 1);
\* swap.  Positions are 1-based here; randbelow(k) consumes the generator
\* state s as s % k and leaves s \div k.
RECURSIVE ShuffleFrom(_, _, _)
ShuffleFrom(x, i, s) ==
    IF i < 2 THEN [list |-> x, state |-> s]
    ELSE LET j == (s % i) + 1
         IN  ShuffleFrom(Swap(x, i, j), i - 1, s \div i)

shuffle(x, s) == ShuffleFrom(x, Len(x), s)

(***************************************************************************)
(* Search loop: the merged parameter setting.                              *)
(***************************************************************************)
\* dict(zip(keys, vals))
ZipDict(keys, vals) ==
    LET m == Min(Len(keys), Len(vals))
    IN  [k \in {keys[i] : i \in 1..m} |->
            vals[CHOOSE i \in 1..m : keys[i] = k /\ \A h \in (i + 1)..m : keys[h] # k]]

\* d.update(u)
Update(d, u) == u @@ d

\* floor(log2(x)) for x >= 1
RECURSIVE FloorLog2(_)
FloorLog2(x) == IF x < 2 THEN 0 ELSE 1 + FloorLog2(x \div 2)

\* floor instead of ceil
CeilLog2Floor(x) == FloorLog2(x)

\* int(ceil(np.log2(x))): log2 x is an integer exactly when x is a power of 2
CeilLog2(x) ==
    IF Pow2(FloorLog2(x)) = x THEN FloorLog2(x) ELSE FloorLog2(x) + 1

\* zips the swept values with the baseline's keys instead of param_grid's
CvParamsWrongKeys(base, grid, test_param) ==
    LET ks == CHOOSE q \in [1..Cardinality(DOMAIN base) -> DOMAIN base] :
                  Range(q) = DOMAIN base
    IN  Update(base, ZipDict(ks, test_param))

\* cv_params = get_params(GBM); cv_params.update(dict(zip(param_grid.keys(), test_param)))
CvParams(base, grid, test_param) ==
    Update(base, ZipDict(Keys(grid), test_param))

\* if GBM == 'lightgbm': cv_params['max_depth'] = int(ceil(np.log2(cv_params['num_leaves'])))
DeriveDepth(model, params) ==
    IF model = "lightgbm"
    THEN [k \in DOMAIN params \cup {"max_depth"} |->
             IF k = "max_depth" THEN CeilLog2(params["num_leaves"]) ELSE params[k]]
    ELSE params

\* cv_params['num_leaves'] raises KeyError
DepthKeyError(model, params) ==
    model = "lightgbm" /\ "num_leaves" \notin DOMAIN params

(***************************************************************************)
(* Cross-Validation Runner: the aggregation run_cv returns.                *)
(***************************************************************************)
Column(res, f) == [i \in DOMAIN res |-> res[i][f]]

\* df.mean(), truncated to the unit of the quantity
Mean(xs) == SumSeq(xs) \div Len(xs)

RECURSIVE ISqrtFrom(_, _)
ISqrtFrom(v, r) == IF (r + 1) * (r + 1) > v THEN r ELSE ISqrtFrom(v, r + 1)

\* df.std(): the sample standard deviation (ddof = 1), truncated to the unit;
\* NaN for a single fold
Std(xs) ==
    LET k  == Len(xs)
        sq == SumSeq([i \in DOMAIN xs |-> xs[i] * xs[i]])
    IN  IF k < 2 THEN NaN
        ELSE ISqrtFrom((k * sq - SumSeq(xs) * SumSeq(xs)) \div (k * (k - 1)), 0)

\* df.mean().append(df.std().rename(...)).append(pd.Series(test_params))
RunCvSeries(res, test_params) ==
    test_params @@
    [rounds     |-> Mean(Column(res, "rounds")),
     train      |-> Mean(Column(res, "train")),
     valid      |-> Mean(Column(res, "valid")),
     rounds_std |-> Std(Column(res, "rounds")),
     train_std  |-> Std(Column(res, "train")),
     valid_std  |-> Std(Column(res, "valid"))]

(***************************************************************************)
(* The results table (a DataFrame: column labels, row labels, cells).      *)
(***************************************************************************)
\* results[c] = series
SetColumn(frame, c, series) ==
    IF frame.columns = <<>> /\ frame.index = {}
    THEN [columns |-> <<c>>,
          index   |-> DOMAIN series,
          data    |-> [r \in DOMAIN series |-> (c :> series[r])]]
    ELSE [columns |-> IF c \in Range(frame.columns) THEN frame.columns
                      ELSE Append(frame.columns, c),
          index   |-> frame.index,
          data    |-> [r \in frame.index |->
                          (c :> (IF r \in DOMAIN series THEN series[r] ELSE NaN))
                          @@ frame.data[r]]]

\* results.loc[r, c] = v
SetLoc(frame, r, c, v) ==
    [columns |-> frame.columns,
     index   |-> frame.index \cup {r},
     data    |-> [q \in frame.index \cup {r} |->
                     IF q = r
                     THEN (c :> v) @@
                          (IF r \in frame.index THEN frame.data[r]
                           ELSE [k \in Range(frame.columns) |-> NaN])
                     ELSE frame.data[q]]]

\* results.T.apply(pd.to_numeric, errors='ignore'): every cell of the model
\* is numeric already, so the coercion leaves the values as they are
Transpose(frame) ==
    [index   |-> frame.columns,
     columns |-> frame.index,
     data    |-> [c \in Range(frame.columns) |->
                     [r \in frame.index |-> frame.data[r][c]]]]

\* an append-only store: the new rows follow the rows already there
PutAppend(old, table) ==
    [index   |-> old.index \o table.index,
     columns |-> old.columns \cup table.columns,
     data    |-> table.data]

\* store.put(result_key, table): replaces what the key held
Put(old, table) == table

(***************************************************************************)
(* The leaderboard printed while the search runs.                          *)
(***************************************************************************)
\* elementwise ==, where NaN equals nothing
Eq(a, b) == a # NaN /\ b # NaN /\ a = b

\* results.eq(results.iloc[:, 0], axis=0).all(1)
ConstantRows(frame) ==
    {r \in frame.index :
        \A c \in Range(frame.columns) :
            Eq(frame.data[r][c], frame.data[r][frame.columns[1]])}

RemoveAt(s, i) == SubSeq(s, 1, i - 1) \o SubSeq(s, i + 1, Len(s))

\* leaves the rows in the order they were recorded
SortValuesNone(frame, cs) == cs

\* df.sort_values('valid', ascending=False): rows (column labels of results)
\* by descending valid, equal values in their recorded order
RECURSIVE SortValuesDesc(_, _)
SortValuesDesc(frame, cs) ==
    IF cs = <<>> THEN <<>>
    ELSE LET i == CHOOSE j \in DOMAIN cs :
                    /\ \A h \in DOMAIN cs :
                          frame.data["valid"][cs[h]] <= frame.data["valid"][cs[j]]
                    /\ \A h \in 1..(j - 1) :
                          frame.data["valid"][cs[h]] < frame.data["valid"][cs[j]]
         IN  <<cs[i]>> \o SortValuesDesc(frame, RemoveAt(cs, i))

\* .head(k)
HeadRows(cs, k) == SubSeq(cs, 1, Min(k, Len(cs)))

\* if n > 1: df = results[~constant].T; if 'valid' in df.columns: print(top 5)
Printed(frame, k) ==
    k > 1 /\ "valid" \in (frame.index \ ConstantRows(frame))

Leaderboard(frame, k) ==
    [n     |-> k,
     shown |-> frame.index \ ConstantRows(frame),
     rows  |-> HeadRows(SortValuesDesc(frame, frame.columns), TopK)]

NoLeaderboard == [n |-> 0, shown |-> {}, rows |-> <<>>]

(***************************************************************************)
(* Initial states.                                                         *)
(***************************************************************************)
TrainIdle ==
    /\ tpc = "idle"
    /\ round = 0
    /\ best_iter = 0
    /\ best_score = NaN
    /\ last_score = NaN
    /\ max_valid = NaN
    /\ fold_result = <<>>

LoopIdle ==
    /\ pc = "start"
    /\ error = "none"
    /\ all_params = <<>>
    /\ n_models = 0
    /\ n = 0
    /\ cv_params = <<>>
    /\ fold = 0
    /\ result = <<>>
    /\ results = EmptyFrame
    /\ leaderboard = NoLeaderboard
    /\ clock = 0
    /\ iteration = 0

Settings ==
    /\ GBM \in Backends
    /\ n_splits \in 1..MaxSplits
    /\ param_grid \in ParamGrids(GBM)
    /\ baseline \in get_params(GBM)
    /\ np_state \in 0..MaxSeed
    /\ py_state \in 0..MaxSeed
    /\ store \in {EmptyTable, StaleTable}
    /\ run = 1
    /\ prev_params = <<>>

Init == Settings /\ LoopIdle /\ TrainIdle

(***************************************************************************)
(* The notebook's cells, in order.                                         *)
(***************************************************************************)
\* np.random.seed(42)
Seed ==
    /\ pc = "start"
    /\ np_state' = NpSeed
    /\ pc' = "grid"
    /\ UNCHANGED <<GBM, n_splits, param_grid, baseline, py_state, store,
                   error, all_params, n_models, n, cv_params,
                   fold, result, results, leaderboard, clock, iteration, run,
                   prev_params>>
    /\ UNCHANGED trainVars

\* all_params = list(product(...)); n_models = len(all_params); shuffle(all_params)
BuildGrid ==
    /\ pc = "grid"
    /\ LET sh == shuffle(product(Values(param_grid)), py_state)
       IN  /\ all_params' = sh.list
           /\ py_state' = sh.state
    /\ n_models' = Len(product(Values(param_grid)))
    /\ pc' = "search"
    /\ UNCHANGED <<GBM, n_splits, param_grid, baseline, np_state, store,
                   error, n, cv_params, fold, result, results,
                   leaderboard, clock, iteration, run, prev_params>>
    /\ UNCHANGED trainVars

\* results = pd.DataFrame(); start = time()
StartSearch ==
    /\ pc = "search"
    /\ results' = EmptyFrame
    /\ n' = 0
    /\ pc' = "loop"
    /\ UNCHANGED <<GBM, n_splits, param_grid, baseline, np_state, py_state,
                   store, error, all_params, n_models, cv_params,
                   fold, result, leaderboard, clock, iteration, run,
                   prev_params>>
    /\ UNCHANGED trainVars

\* the next grid point: merge the baseline with the swept values, derive
\* max_depth, enter run_cv
NextSetting ==
    /\ pc = "loop"
    /\ n < n_models
    /\ ~DepthKeyError(GBM, CvParams(baseline, param_grid, all_params[n + 1]))
    /\ n' = n + 1
    /\ iteration' = clock
    /\ cv_params' = DeriveDepth(GBM, CvParams(baseline, param_grid, all_params[n + 1]))
    /\ fold' = 0
    /\ result' = <<>>
    /\ pc' = "cv"
    /\ UNCHANGED <<GBM, n_splits, param_grid, baseline, np_state, py_state,
                   store, error, all_params, n_models, results,
                   leaderboard, clock, run, prev_params>>
    /\ UNCHANGED trainVars

\* the next grid point, where cv_params['num_leaves'] raises KeyError
NextSettingKeyError ==
    /\ pc = "loop"
    /\ n < n_models
    /\ DepthKeyError(GBM, CvParams(baseline, param_grid, all_params[n + 1]))
    /\ n' = n + 1
    /\ iteration' = clock
    /\ cv_params' = CvParams(baseline, param_grid, all_params[n + 1])
    /\ error' = "KeyError"
    /\ pc' = "failed"
    /\ UNCHANGED <<GBM, n_splits, param_grid, baseline, np_state, py_state,
                   store, all_params, n_models, fold, result,
                   results, leaderboard, clock, run, prev_params>>
    /\ UNCHANGED trainVars

\* run_cv: one fold trained and scored
TrainFoldOk ==
    /\ pc = "cv"
    /\ fold < n_splits
    /\ \E o \in FoldOutcomes : result' = Append(result, o)
    /\ fold' = fold + 1
    /\ clock' = clock + 1
    /\ UNCHANGED <<GBM, n_splits, param_grid, baseline, np_state, py_state,
                   store, pc, error, all_params, n_models, n,
                   cv_params, results, leaderboard, iteration, run,
                   prev_params>>
    /\ UNCHANGED trainVars

\* a failure that is caught after a NaN column was recorded for the setting
TrainFoldFailsRecorded ==
    /\ pc = "cv"
    /\ fold < n_splits
    /\ results' = SetColumn(results, n, [r \in DOMAIN cv_params |-> NaN])
    /\ error' = "training"
    /\ pc' = "failed"
    /\ UNCHANGED <<GBM, n_splits, param_grid, baseline, np_state, py_state,
                   store, all_params, n_models, n, cv_params,
                   fold, result, leaderboard, clock, iteration, run,
                   prev_params>>
    /\ UNCHANGED trainVars

\* run_cv: the training of a fold raises; nothing catches it
TrainFoldFails ==
    /\ pc = "cv"
    /\ fold < n_splits
    /\ error' = "training"
    /\ pc' = "failed"
    /\ UNCHANGED <<GBM, n_splits, param_grid, baseline, np_state, py_state,
                   store, all_params, n_models, n, cv_params,
                   fold, result, results, leaderboard, clock, iteration, run,
                   prev_params>>
    /\ UNCHANGED trainVars

\* the column recorded for iteration k
Recorded(frame, k, res, params, elapsed) ==
    SetLoc(SetColumn(frame, k, RunCvSeries(res, params)), "time", k, elapsed)

\* the rest of the loop body once run_cv returned: record the column and
\* the time row, print the leaderboard, checkpoint the table
FinishIteration ==
    /\ pc = "cv"
    /\ fold = n_splits
    /\ results' = Recorded(results, n, result, cv_params, clock - iteration)
    /\ leaderboard' = IF Printed(results', n) THEN Leaderboard(results', n)
                      ELSE leaderboard
    /\ store' = Put(store, Transpose(results'))
    /\ pc' = "loop"
    /\ UNCHANGED <<GBM, n_splits, param_grid, baseline, np_state, py_state,
                   error, all_params, n_models, n, cv_params,
                   fold, result, clock, iteration, run, prev_params>>
    /\ UNCHANGED trainVars

\* all_params is exhausted
LoopExit ==
    /\ pc = "loop"
    /\ n = n_models
    /\ pc' = "done"
    /\ UNCHANGED <<GBM, n_splits, param_grid, baseline, np_state, py_state,
                   store, error, all_params, n_models, n,
                   cv_params, fold, result, results, leaderboard, clock,
                   iteration, run, prev_params>>
    /\ UNCHANGED trainVars

Next ==
    \/ Seed
    \/ BuildGrid
    \/ StartSearch
    \/ NextSetting
    \/ NextSettingKeyError
    \/ TrainFoldOk
    \/ TrainFoldFails
    \/ FinishIteration
    \/ LoopExit

Spec == Init /\ [][Next]_vars

(***************************************************************************)
(* Properties of the search loop and the grid generator.                   *)
(***************************************************************************)
Generated == pc \notin {"start", "grid"}

\* rows of the results table that run_cv's scores and the timer fill
ScoreRows ==
    {"rounds", "train", "valid", "rounds_std", "train_std", "valid_std", "time"}

SweptKeys == Range(Keys(param_grid))

\* the parameter setting recorded in column c of the results table
SettingOf(c) == [k \in results.index \ ScoreRows |-> results.data[k][c]]

\* every parameter setting handed to run_cv so far in this run
Handed ==
    {SettingOf(c) : c \in Range(results.columns)}
        \cup (IF pc = "cv" \/ (pc = "failed" /\ error = "training")
              THEN {cv_params} ELSE {})

RECURSIVE ProdSizes(_)
ProdSizes(grid) ==
    IF grid = <<>> THEN 1
    ELSE Len(Head(grid).values) * ProdSizes(Tail(grid))

\* C1: after iteration n completes the table persisted under result_key has
\* exactly n rows, indexed 1..n, row i holding column i of the in-memory
\* results table, whatever the store held before; after the loop the results
\* table has n_models columns and a 'time' row and the store n_models rows.
C1_CheckpointEveryIteration ==
    /\ (pc = "loop" /\ n >= 1) =>
          /\ Len(store.index) = n
          /\ store.index = [i \in 1..n |-> i]
          /\ results.columns = store.index
          /\ store.columns = results.index
          /\ \A i \in 1..n : \A r \in results.index :
                store.data[i][r] = results.data[r][i]
    /\ pc = "done" =>
          /\ n = n_models
          /\ Len(results.columns) = n_models
          /\ "time" \in results.index
          /\ Len(store.index) = n_models

C1_Witness ==
    /\ pc = "done"
    /\ n_splits = 2
    /\ n_models = 6
    /\ Len(results.columns) = 6
    /\ Len(store.index) = 6

\* C2: all_params holds exactly n1*...*nk combinations, each a k-tuple with
\* one candidate of every parameter in the key order of param_grid, so that
\* zip(param_grid.keys(), combination) pairs each parameter with one of its
\* own candidates; every such tuple occurs.
C2_GridIsCartesianProduct ==
    Generated =>
        /\ Len(all_params) = ProdSizes(param_grid)
        /\ n_models = ProdSizes(param_grid)
        /\ \A i \in DOMAIN all_params :
              /\ Len(all_params[i]) = Len(param_grid)
              /\ \A j \in DOMAIN param_grid :
                    /\ all_params[i][j] \in Range(param_grid[j].values)
                    /\ ZipDict(Keys(param_grid), all_params[i])[param_grid[j].key]
                          = all_params[i][j]
        /\ \A t \in [DOMAIN param_grid ->
                        UNION {Range(param_grid[j].values) : j \in DOMAIN param_grid}] :
              (\A j \in DOMAIN param_grid : t[j] \in Range(param_grid[j].values))
                  => t \in Range(all_params)

C2_Witness ==
    /\ Generated
    /\ Len(param_grid) = 2
    /\ Len(param_grid[1].values) = 3
    /\ Len(param_grid[2].values) = 2
    /\ Len(all_params) = 6

\* C3: the shuffled list is a permutation of the Cartesian product (same
\* multiset), and in a run that completes the columns of the results table
\* are 1..n_models, column c recording the swept values of all_params[c]:
\* every combination is evaluated exactly once.
C3_ShufflePreservesCombinations ==
    /\ Generated =>
          SeqToBag(all_params) = SeqToBag(product(Values(param_grid)))
    /\ pc = "done" =>
          /\ results.columns = [i \in 1..n_models |-> i]
          /\ \A c \in 1..n_models : \A j \in DOMAIN param_grid :
                (GBM = "lightgbm" /\ param_grid[j].key = "max_depth")
                    \/ results.data[param_grid[j].key][c] = all_params[c][j]

C3_Witness ==
    /\ pc = "done"
    /\ n_models >= 4
    /\ all_params # product(Values(param_grid))
    /\ Len(results.columns) = n_models

\* C4: with lightgbm every setting handed to run_cv has max_depth equal to
\* the least d with 2^d >= num_leaves of the same setting, whatever the
\* baseline or the grid gave for max_depth; 512 gives 9 and 8192 gives 13.
C4_DepthFromLeaves ==
    GBM = "lightgbm" =>
        \A a \in Handed :
            /\ "num_leaves" \in DOMAIN a
            /\ "max_depth" \in DOMAIN a
            /\ Pow2(a["max_depth"]) >= a["num_leaves"]
            /\ (a["max_depth"] = 0 \/ Pow2(a["max_depth"] - 1) < a["num_leaves"])
            /\ (a["num_leaves"] = 512 => a["max_depth"] = 9)
            /\ (a["num_leaves"] = 8192 => a["max_depth"] = 13)

C4_Witness ==
    /\ GBM = "lightgbm"
    /\ pc = "cv"
    /\ "max_depth" \in SweptKeys
    /\ ZipDict(Keys(param_grid), all_params[n])["max_depth"] = 3
    /\ cv_params["num_leaves"] = 8192
    /\ cv_params["max_depth"] = 13
    /\ \E c \in Range(results.columns) :
          SettingOf(c)["num_leaves"] = 512 /\ SettingOf(c)["max_depth"] = 9

\* the step in which the training of a fold raises
TrainingFailure == error = "none" /\ error' = "training"

\* C5 (as amended): a training failure while grid point n is evaluated ends
\* the run: the failing step adds no column n and leaves the store alone, the
\* store changes only when an iteration completes, nothing runs after the
\* failure, and for n > 1 the store holds exactly the rows of iterations
\* 1..n-1 of this run; for n = 1 it still holds what it held before the run.
C5_FailureKeepsLastCheckpoint ==
    [][ /\ TrainingFailure =>
              /\ pc' = "failed"
              /\ results' = results
              /\ store' = store
              /\ n \notin Range(results.columns)
              /\ Len(results.columns) = n - 1
              /\ n > 1 =>
                    /\ store.index = [i \in 1..(n - 1) |-> i]
                    /\ \A i \in 1..(n - 1) : \A r \in results.index :
                          store.data[i][r] = results.data[r][i]
        /\ store' # store => (pc = "cv" /\ fold = n_splits /\ pc' = "loop")
        /\ pc = "failed" => UNCHANGED vars ]_vars

C5_Witness ==
    /\ pc = "failed"
    /\ error = "training"
    /\ n = 1
    /\ fold = 1
    /\ results = EmptyFrame
    /\ store = StaleTable

\* C5 as stated: after a training failure at grid point n the store holds
\* exactly the rows of iterations 1..n-1 of this run.
C5_AsStated ==
    (pc = "failed" /\ error = "training") =>
        /\ Len(store.index) = n - 1
        /\ store.index = results.columns
        /\ \A i \in 1..(n - 1) : \A r \in results.index :
              store.data[i][r] = results.data[r][i]

\* C6 (as amended): all settings handed to run_cv in one run have the same
\* parameters (the baseline's and the swept ones) and carry the baseline's
\* value, hence one common value, for every parameter that is not
\* swept -- except max_depth under lightgbm, which the loop derives from the
\* setting's num_leaves.
C6_SharedBaseline ==
    \A a \in Handed :
        /\ DOMAIN a = DOMAIN baseline \cup SweptKeys
                        \cup (IF GBM = "lightgbm" THEN {"max_depth"} ELSE {})
        /\ \A k \in DOMAIN baseline \ SweptKeys :
              (GBM = "lightgbm" /\ k = "max_depth") \/ a[k] = baseline[k]

C6_Witness ==
    /\ GBM = "lightgbm"
    /\ "max_depth" \notin SweptKeys
    /\ pc = "cv"
    /\ \E c \in Range(results.columns) :
          /\ SettingOf(c)["max_depth"] # cv_params["max_depth"]
          /\ SettingOf(c)["learning_rate"] = cv_params["learning_rate"]
          /\ cv_params["learning_rate"] = baseline["learning_rate"]

\* C6 as stated: any two settings handed to run_cv agree on every parameter
\* that is not a key of param_grid.
C6_AsStated ==
    \A a \in Handed : \A b \in Handed :
        \A k \in (DOMAIN a \cap DOMAIN b) \ SweptKeys : a[k] = b[k]

\* valid AUC recorded for column c
Valid(c) == results.data["valid"][c]

PrintedNow == leaderboard.n = n

\* C10 (as amended): after every iteration n > 1 the leaderboard is printed
\* exactly when the recorded valid AUC values of the n columns are not all
\* equal; when printed it holds min(n, 5) distinct columns, ordered by valid
\* AUC descending, none below a column it omits, and every row it leaves out
\* of the display has the same value in all n columns.
C10_Leaderboard ==
    (pc = "loop" /\ n > 1) =>
        /\ PrintedNow <=> (\E c \in 1..n : Valid(c) # Valid(1))
        /\ PrintedNow =>
              /\ Len(leaderboard.rows) = Min(n, TopK)
              /\ Range(leaderboard.rows) \subseteq 1..n
              /\ \A i, j \in DOMAIN leaderboard.rows :
                    i < j => /\ leaderboard.rows[i] # leaderboard.rows[j]
                             /\ Valid(leaderboard.rows[i]) >= Valid(leaderboard.rows[j])
              /\ \A c \in (1..n) \ Range(leaderboard.rows) :
                    \A i \in DOMAIN leaderboard.rows :
                        Valid(c) <= Valid(leaderboard.rows[i])
              /\ \A r \in results.index \ leaderboard.shown :
                    \A c \in 1..n : results.data[r][c] = results.data[r][1]

C10_Witness ==
    /\ pc = "loop"
    /\ n = 6
    /\ PrintedNow
    /\ Len(leaderboard.rows) = 5
    /\ Valid(leaderboard.rows[1]) > Valid(leaderboard.rows[5])
    /\ leaderboard.rows[1] > leaderboard.rows[5]
    /\ "valid" \in leaderboard.shown
    /\ "max_depth" \notin leaderboard.shown

\* C10 as stated: after every iteration n > 1 a leaderboard is printed,
\* whatever the recorded valid AUC values are.
C10_AsStated ==
    (pc = "loop" /\ n > 1) => PrintedNow

(***************************************************************************)
(* Re-running the grid cells in a fresh interpreter.                       *)
(***************************************************************************)
\* the kernel is restarted and the notebook run again on the same
\* param_grid: both generators start from fresh entropy, and the order the
\* previous run shuffled to is kept for comparison
Rerun ==
    /\ pc = "search"
    /\ run = 1
    /\ run' = 2
    /\ prev_params' = all_params
    /\ np_state' \in 0..MaxSeed
    /\ py_state' \in 0..MaxSeed
    /\ all_params' = <<>>
    /\ n_models' = 0
    /\ pc' = "start"
    /\ UNCHANGED <<GBM, n_splits, param_grid, baseline, store, error, n,
                   cv_params, fold, result, results, leaderboard, clock,
                   iteration>>
    /\ UNCHANGED trainVars

NextGrid ==
    \/ Seed
    \/ BuildGrid
    \/ Rerun

SpecGrid == Init /\ [][NextGrid]_vars

\* C9: two runs that both execute np.random.seed(42) and then build and
\* shuffle the grid from the same param_grid hold the same combinations and
\* iterate over them in the same order.
C9_AsStated ==
    (run = 2 /\ pc = "search" /\ np_state = NpSeed) =>
        /\ SeqToBag(all_params) = SeqToBag(prev_params)
        /\ all_params = prev_params

(***************************************************************************)
(* run_cv: the training of one fold, boosting round by boosting round.     *)
(* Only the validation metric is followed; the train AUC is recorded the   *)
(* same way (last entry of its history) and is left out.                   *)
(***************************************************************************)
settingVars == <<GBM, n_splits, param_grid, baseline, np_state, py_state,
                 run, prev_params>>

\* validation AUC values: 0.5 to 1.0 in steps of 10/240
AucLevels == {120 + 10 * i : i \in 0..12}

\* what a boosting round can score when the best score so far is best: the
\* lowest level, the best so far again, or one step above it
RoundScores(best) ==
    IF best = NaN THEN {120, 130}
    ELSE {s \in AucLevels : s = 120 \/ s = best \/ s = best + 10}

\* test_params handed to run_cv
TrainSettings(model) ==
    CASE model = "xgboost"  ->
            { [learning_rate |-> 10, max_depth |-> 6] }
      [] model = "lightgbm" ->
            { [learning_rate |-> 10, num_leaves |-> 512, boosting |-> "gbdt"],
              [learning_rate |-> 10, num_leaves |-> 512, boosting |-> "dart"],
              [learning_rate |-> 10, num_leaves |-> 512, boosting |-> "gbdt",
               num_iterations |-> 260] }
      [] model = "catboost" ->
            { [learning_rate |-> 10, max_depth |-> 6],
              [learning_rate |-> 10, max_depth |-> 6, iterations |-> 300] }

InitTrain ==
    /\ GBM \in Backends
    /\ cv_params \in TrainSettings(GBM)
    /\ n_splits = 1
    /\ param_grid = <<>>
    /\ baseline = <<>>
    /\ np_state = NpSeed
    /\ py_state = 0
    /\ store = EmptyTable
    /\ run = 1
    /\ prev_params = <<>>
    /\ pc = "cv"
    /\ error = "none"
    /\ all_params = <<>>
    /\ n_models = 0
    /\ n = 1
    /\ fold = 0
    /\ result = <<>>
    /\ results = EmptyFrame
    /\ leaderboard = NoLeaderboard
    /\ clock = 0
    /\ iteration = 0
    /\ tpc = "training"
    /\ round = 0
    /\ best_iter = 0
    /\ best_score = NaN
    /\ last_score = NaN
    /\ max_valid = NaN
    /\ fold_result = <<>>

\* lightgbm lets a round-count alias in params replace num_boost_round
HasRoundsAlias(params) == "num_iterations" \in DOMAIN params

\* lightgbm switches early stopping off in dart mode
DartMode(params) ==
    "boosting" \in DOMAIN params /\ params["boosting"] = "dart"

\* the number of boosting rounds the library is asked for
NumRounds(model, params) ==
    CASE model = "xgboost"  -> NumBoostRound
      [] model = "lightgbm" -> IF HasRoundsAlias(params)
                               THEN params["num_iterations"] ELSE NumBoostRound
      [] model = "catboost" -> IF "iterations" \in DOMAIN params
                               THEN params["iterations"]
                               ELSE CatBoostDefaultIterations

\* early_stopping_rounds=25 applies to this training
EarlyStoppingOn(model, params) ==
    model = "xgboost" \/ (model = "lightgbm" /\ ~DartMode(params))

\* a training call that leaves early_stopping_rounds out
BoostRoundNoEarlyStop ==
    /\ tpc = "training"
    /\ GBM \in {"xgboost", "lightgbm"}
    /\ round < NumRounds(GBM, cv_params)
    /\ \E score \in RoundScores(max_valid) :
          /\ last_score' = score
          /\ max_valid' = IF max_valid = NaN \/ score > max_valid
                          THEN score ELSE max_valid
          /\ best_score' = best_score
          /\ best_iter' = best_iter
    /\ round' = round + 1
    /\ tpc' = IF round + 1 = NumRounds(GBM, cv_params)
              THEN "exhausted" ELSE "training"
    /\ UNCHANGED fold_result
    /\ UNCHANGED settingVars
    /\ UNCHANGED loopVars

\* xgb.train / lgb.train, one boosting round (iteration index = round): the
\* round is scored on the validation set, the early-stopping callback keeps
\* the best score and stops after EarlyStoppingRounds rounds without a
\* better one, evals_result receives the round's score.  xgboost runs its
\* early-stopping callback before the one that records, so the stopping
\* round is not recorded; lightgbm records first.
BoostRound ==
    /\ tpc = "training"
    /\ GBM \in {"xgboost", "lightgbm"}
    /\ round < NumRounds(GBM, cv_params)
    /\ \E score \in RoundScores(max_valid) :
          LET on       == EarlyStoppingOn(GBM, cv_params)
              improved == best_score = NaN \/ score > best_score
              stop     == on /\ ~improved
                             /\ round - best_iter >= EarlyStoppingRounds
          IN  /\ best_score' = IF on /\ improved THEN score ELSE best_score
              /\ best_iter' = IF on /\ improved THEN round ELSE best_iter
              /\ last_score' = IF stop /\ GBM = "xgboost"
                               THEN last_score ELSE score
              /\ max_valid' = IF max_valid = NaN \/ score > max_valid
                              THEN score ELSE max_valid
              /\ tpc' = IF stop THEN "stopped"
                        ELSE IF round + 1 = NumRounds(GBM, cv_params)
                             THEN "exhausted" ELSE "training"
    /\ round' = round + 1
    /\ UNCHANGED fold_result
    /\ UNCHANGED settingVars
    /\ UNCHANGED loopVars

\* result.append([model.best_iteration | model.current_iteration(),
\*                scores['train']['auc'][-1], scores['valid']['auc'][-1]])
RecordFold ==
    /\ tpc \in {"stopped", "exhausted"}
    /\ GBM \in {"xgboost", "lightgbm"}
    /\ fold_result' = [rounds |-> IF GBM = "xgboost" THEN best_iter ELSE round,
                       valid  |-> last_score,
                       early  |-> tpc = "stopped"]
    /\ tpc' = "recorded"
    /\ UNCHANGED <<round, best_iter, best_score, last_score, max_valid>>
    /\ UNCHANGED settingVars
    /\ UNCHANGED loopVars

\* CatBoostClassifier(**test_params).fit(...): one boosting round; run_cv
\* passes neither a round count nor an early-stopping setting
CatBoostRound ==
    /\ tpc = "training"
    /\ GBM = "catboost"
    /\ round < NumRounds(GBM, cv_params)
    /\ round' = round + 1
    /\ tpc' = IF round + 1 = NumRounds(GBM, cv_params)
              THEN "exhausted" ELSE "training"
    /\ UNCHANGED <<best_iter, best_score, last_score, max_valid, fold_result>>
    /\ UNCHANGED settingVars
    /\ UNCHANGED loopVars

\* result.append([model.tree_count_, roc_auc_score(train), roc_auc_score(valid)]):
\* with an eval_set the fitted model keeps the trees up to its best round
CatBoostRecord ==
    /\ tpc = "exhausted"
    /\ GBM = "catboost"
    /\ \E trees \in 1..round : \E score \in AucLevels :
          fold_result' = [rounds |-> trees, valid |-> score, early |-> FALSE]
    /\ tpc' = "recorded"
    /\ UNCHANGED <<round, best_iter, best_score, last_score, max_valid>>
    /\ UNCHANGED settingVars
    /\ UNCHANGED loopVars

NextTrain ==
    \/ BoostRound
    \/ RecordFold
    \/ CatBoostRound
    \/ CatBoostRecord

SpecTrain == InitTrain /\ [][NextTrain]_vars

\* C7: when early stopping ended the fold's training, the validation AUC
\* run_cv records (the last entry of the evaluation history) is the maximum
\* validation AUC any round of that training reached.
C7_AsStated ==
    (tpc = "recorded" /\ fold_result.early) => fold_result.valid = max_valid

\* training goes on only while the last EarlyStoppingRounds rounds hold the
\* best score, and stops in the round that makes it 25 without a better one
EarlyStopRule ==
    /\ (tpc = "training" /\ round > 0) =>
          (round - 1) - best_iter < EarlyStoppingRounds
    /\ tpc = "stopped" => (round - 1) - best_iter = EarlyStoppingRounds

====
